---- MODULE Spec2Model ----
(***************************************************************************)
(* A model of gordon's message router (gordon/router.py): GordonRouter,    *)
(* its poll tasks, the success channel, the in-flight table and the        *)
(* metrics, logs and message mutations each step of the code performs.     *)
(* Every action runs one poll task from one suspension point (an await     *)
(* that may yield to the event loop) to the next.  Further specifications  *)
(* model the bootstrap (gordon/main.py, gordon/plugins_loader.py), the     *)
(* record checker (gordon/record_checker.py) and the log metrics relay     *)
(* (gordon/metrics/log.py), each over a variable of its own.               *)
(***************************************************************************)
EXTENDS Integers, Sequences, FiniteSets, TLC

\* ------------------------------------------------------------------ bounds
\* messages the runnable plugins produce
NumMsgs == 2
\* poll tasks run() has pending at the same time
MaxPolls == 2
\* nested _route(force_cleanup=True) calls the interpreter's stack allows
RecursionLimit == 2

Msgs == 1..NumMsgs
Polls == 1..MaxPolls
\* the shutdown sentinel put on the success channel (messages are 1..NumMsgs)
None == 0
NoMsg == None

\* ------------------------------------------------------- program constants
FINAL_PHASES == {"cleanup"}

\* the phases a runnable gives a new message: the start of the chain, or a
\* phase that is no key of the route
StartPhases == {"consume", "bogus"}

\* the two routes the router supports (router.py module docstring)
RouteWithEnricher == [consume |-> "enrich", enrich |-> "publish", publish |-> "cleanup"]
RouteNoEnricher == [consume |-> "publish", publish |-> "cleanup"]
PhaseRoutes == {RouteWithEnricher, RouteNoEnricher}

\* the message handling plugins of the unit tests' fixtures, by phase
EventConsumer == [name |-> "event_consumer", phase |-> "cleanup"]
Enricher == [name |-> "enricher", phase |-> "enrich"]
Publisher == [name |-> "publisher", phase |-> "publish"]
PluginLists ==
    { <<EventConsumer, Enricher, Publisher>>,
      <<Enricher, Publisher>>,
      <<EventConsumer, Publisher>> }

\* the class of exception a plugin's handle_message raises when it fails:
\* the enricher an error of gordon.exceptions, the others a plain Exception
HandlerError(plugin) == IF plugin = Enricher.name THEN "GordonError" ELSE "Exception"

\* what a runnable puts on the success channel: an object that provides
\* IEventMessage, or one that does not, with or without a msg_id attribute
ObjectKinds ==
    { [provides |-> TRUE, has_msg_id |-> TRUE],
      [provides |-> FALSE, has_msg_id |-> TRUE],
      [provides |-> FALSE, has_msg_id |-> FALSE] }

\* ------------------------------------------------------------------- state
VARIABLES
    phase_route,          \* GordonRouter.phase_route
    phase_plugin_map,     \* GordonRouter.phase_plugin_map: phase -> plugin name
    success_channel,      \* the asyncio.Queue: a sequence of messages and None
    event_msg,            \* the IEventMessage objects: produced, msg_id, phase, history
    messages_in_flight,   \* GordonRouter._messages_in_flight: msg_id -> timer
    timers,               \* the ITimer objects made by metrics.timer
    incr_calls,           \* metrics.incr calls made for each message, in order
    set_calls,            \* metrics.set calls: how many, and the last value
    msg_log,              \* logging records about each message, in order
    router_log,           \* logging records about no message
    handle_calls,         \* handle_message invocations for each message
    poll,                 \* the pending _poll_channel tasks of run()
    poll_errors,          \* exceptions that ended a poll task
    inflight_calls,       \* _add/_remove_message_in_flight calls made
    polled_empty,         \* a _poll_channel call has found the channel empty
    gather,               \* main._gather_plugins_by_type: its input and outcome
    loader,               \* plugins_loader._load_plugin_configs: input and outcome
    checker,              \* RecordChecker.check_record: input, loop state and log
    shut,                 \* main.shutdown: the tasks of the loop and its progress
    relay                 \* metrics.log.LogRelay: counters, output and calls made

router_vars == <<phase_route, phase_plugin_map, success_channel, event_msg,
                 messages_in_flight, timers, incr_calls, set_calls, msg_log,
                 router_log, handle_calls, poll, poll_errors, inflight_calls,
                 polled_empty>>

vars == <<router_vars, gather, loader, checker, shut, relay>>

\* what the bootstrap hands to the router and the router never changes
config_vars == <<phase_route, phase_plugin_map, gather, loader, checker, shut, relay>>

\* ----------------------------------------------------------------- helpers
\* dict.get: the value of key k, or no plugin
NoPlugin == "none"
Get(map, k) == IF k \in DOMAIN map THEN map[k] ELSE NoPlugin

\* a dict without key k (dict.pop)
Pop(map, k) == [x \in DOMAIN map \ {k} |-> map[x]]

\* a dict with key k set to v
Put(map, k, v) == [x \in DOMAIN map \cup {k} |-> IF x = k THEN v ELSE map[x]]

IdlePoll == [pc |-> "unscheduled", msg |-> NoMsg, next_phase |-> "",
             force_cleanup |-> FALSE, depth |-> 0]

OnChannel(m) == \E i \in DOMAIN success_channel : success_channel[i] = m

\* the poll task, if any, that holds message m
Holds(t, m) == poll[t].msg = m /\ poll[t].pc # "unscheduled"

\* message m is inside a _route call
RoutePcs == {"dispatch", "handling", "completed", "force"}
InRoute(m) == \E t \in Polls : Holds(t, m) /\ poll[t].pc \in RoutePcs

\* the metrics.incr calls with a given name made for message m
IncrCount(m, name) ==
    Cardinality({i \in DOMAIN incr_calls[m] : incr_calls[m][i][1] = name})

\* ------------------------------------------------------------- construction
\* mutant: the first plugin of a phase wins
_get_phase_plugin_map_first(plugins) ==
    LET phases == {plugins[i].phase : i \in DOMAIN plugins}
        first(ph) == CHOOSE i \in DOMAIN plugins :
                        /\ plugins[i].phase = ph
                        /\ \A j \in DOMAIN plugins : plugins[j].phase = ph => i <= j
    IN  [ph \in phases |-> plugins[first(ph)].name]

\* GordonRouter._get_phase_plugin_map: {p.phase: p for p in plugins}, the
\* last plugin of a phase winning
_get_phase_plugin_map(plugins) ==
    LET phases == {plugins[i].phase : i \in DOMAIN plugins}
        last(ph) == CHOOSE i \in DOMAIN plugins :
                        /\ plugins[i].phase = ph
                        /\ \A j \in DOMAIN plugins : plugins[j].phase = ph => j <= i
    IN  [ph \in phases |-> plugins[last(ph)].name]

\* the warning _get_phase_plugin_map logs when no plugin implements a final phase
ConstructionLog(plugins) ==
    IF FINAL_PHASES \cap {plugins[i].phase : i \in DOMAIN plugins} = {}
    THEN <<"warn-no-final-plugin">>
    ELSE <<>>

\* a message not yet created; start_phase keeps the phase it is created with
\* and phase_log the phases update_phase has given it
NewMsg == [produced |-> FALSE, provides |-> FALSE, has_msg_id |-> FALSE,
           msg_id |-> None, start_phase |-> "", phase |-> "",
           history |-> <<>>, phase_log |-> <<>>]

\* the object m is an IEventMessage a runnable has created
IsMessage(m) == event_msg[m].produced /\ event_msg[m].provides

\* the bootstrap functions are not running
Off == [pc |-> "off"]

\* GordonRouter.__init__ with a route and the message handling plugins
RouterConstructed(route, plugins) ==
    /\ phase_route = route
    /\ phase_plugin_map = _get_phase_plugin_map(plugins)
    /\ router_log = ConstructionLog(plugins)
    /\ success_channel = <<>>
    /\ event_msg = [m \in Msgs |-> NewMsg]
    /\ messages_in_flight = <<>>
    /\ timers = <<>>
    /\ incr_calls = [m \in Msgs |-> <<>>]
    /\ set_calls = [count |-> 0, value |-> 0]
    /\ msg_log = [m \in Msgs |-> <<>>]
    /\ handle_calls = [m \in Msgs |-> <<>>]
    /\ poll = [t \in Polls |-> IdlePoll]
    /\ poll_errors = {}
    /\ inflight_calls = 0
    /\ polled_empty = FALSE

Init ==
    /\ \E route \in PhaseRoutes, plugins \in PluginLists :
          RouterConstructed(route, plugins)
    /\ gather = Off
    /\ loader = Off
    /\ checker = Off
    /\ shut = Off
    /\ relay = Off

\* ------------------------------------------------------------- environment
\* the msg_ids in use; a new message carries one of them or the next fresh one
UsedIds == {event_msg[m].msg_id : m \in {x \in Msgs : IsMessage(x)}}
FreshId == Cardinality(UsedIds) + 1

\* a runnable plugin creates message m and puts it on the success channel
\* (of an object that does not provide IEventMessage the router reads no
\* attribute but msg_id, and that for a log record only)
Produce(m) ==
    /\ ~event_msg[m].produced
    /\ \A x \in Msgs : x < m => event_msg[x].produced
    /\ \E kind \in ObjectKinds :
          IF kind.provides
          THEN \E id \in UsedIds \cup {FreshId}, ph \in StartPhases :
                  event_msg' = [event_msg EXCEPT ![m].produced = TRUE,
                                                 ![m].provides = TRUE,
                                                 ![m].has_msg_id = TRUE,
                                                 ![m].msg_id = id,
                                                 ![m].start_phase = ph,
                                                 ![m].phase = ph]
          ELSE event_msg' = [event_msg EXCEPT ![m].produced = TRUE,
                                              ![m].has_msg_id = kind.has_msg_id]
    /\ success_channel' = Append(success_channel, m)
    /\ UNCHANGED <<config_vars, polled_empty, messages_in_flight, timers, incr_calls,
                   set_calls, msg_log, router_log, handle_calls, poll,
                   poll_errors, inflight_calls>>

TermReceived == \E i \in DOMAIN router_log : router_log[i] = "info-term"

\* the shutdown sentinel is put on the success channel (once)
PutSentinel ==
    /\ ~OnChannel(None)
    /\ ~TermReceived
    /\ success_channel' = Append(success_channel, None)
    /\ UNCHANGED <<config_vars, polled_empty, event_msg, messages_in_flight, timers,
                   incr_calls, set_calls, msg_log, router_log, handle_calls,
                   poll, poll_errors, inflight_calls>>

\* ------------------------------------------------------------------ router
\* mutant: every known phase is followed by 'cleanup'
_get_next_phase_skips(ph) == "cleanup"

\* mutant: a phase that is no key of the route is kept
_get_next_phase_keeps(ph) ==
    IF ph \in DOMAIN phase_route THEN phase_route[ph] ELSE ph

\* GordonRouter._get_next_phase: the route's successor of the phase, or
\* 'cleanup' for a phase that is no key of the route
_get_next_phase(ph) ==
    IF ph \in DOMAIN phase_route THEN phase_route[ph] ELSE "cleanup"

\* the record _get_next_phase logs
NextPhaseLog(ph) ==
    IF ph \in DOMAIN phase_route THEN "debug-routing" ELSE "error-unknown-phase"

\* mutant: a forced cleanup looks the next phase up in the route
ForcedNextPhaseByRoute(ph) == _get_next_phase(ph)

\* mutant: a forced cleanup sends the message to the publisher
ForcedNextPhaseRestarts(ph) == "publish"

\* _route: the next phase of a forced cleanup
ForcedNextPhase(ph) == "cleanup"

\* GordonRouter._update_messages_in_flight: the gauge is set to len(table)
_update_messages_in_flight(table) ==
    [count |-> set_calls.count + 1, value |-> Cardinality(DOMAIN table)]

\* mutant: the message is never put back on the channel
ReEnqueuesNever(next_phase) == FALSE

\* _route, after a handler returned: the message goes back on the channel
ReEnqueues(next_phase) == next_phase \notin FINAL_PHASES

\* mutant: router-message-completed is emitted after a forced cleanup too
EmitsCompletedForced(next_phase, force_cleanup) == next_phase \in FINAL_PHASES

\* _route, after a handler returned: router-message-completed is emitted
EmitsCompleted(next_phase, force_cleanup) ==
    next_phase \in FINAL_PHASES /\ ~force_cleanup

\* run(): one new _poll_channel coroutine is added to the pending ones in
\* each iteration, and asyncio.wait starts it before the next iteration
Schedule(t) ==
    /\ poll[t].pc = "unscheduled"
    /\ \A u \in Polls : u < t => poll[u].pc # "unscheduled"
    /\ \A u \in Polls : poll[u].pc # "scheduled"
    /\ poll' = [poll EXCEPT ![t].pc = "scheduled"]
    /\ UNCHANGED <<config_vars, polled_empty, success_channel, event_msg, messages_in_flight,
                   timers, incr_calls, set_calls, msg_log, router_log,
                   handle_calls, poll_errors, inflight_calls>>

\* mutant: a channel with one item counts as empty
QueueEmptyBelowTwo(channel) == Len(channel) <= 1

\* asyncio.Queue.empty
QueueEmpty(channel) == channel = <<>>

\* GordonRouter._verify_message_impl: does the object provide IEventMessage
_verify_message_impl(obj) == obj.provides

\* mutant: get leaves the head on the channel
QueueGetPeeks(channel) == channel

\* asyncio.Queue.get: the channel after its head has been taken
QueueGet(channel) == Tail(channel)

\* _poll_channel up to its first await: the channel is empty, or its head is
\* the sentinel, or an object that does not provide IEventMessage, which is
\* logged (the record formats its msg_id: AttributeError without one) and
\* metered as dropped, or a message, which is counted as consumed
PollChannel(t) ==
    /\ poll[t].pc = "scheduled"
    /\ IF QueueEmpty(success_channel)
       THEN /\ poll' = [poll EXCEPT ![t] = IdlePoll]
            /\ polled_empty' = TRUE
            /\ UNCHANGED <<success_channel, router_log, incr_calls, msg_log,
                           poll_errors>>
       ELSE LET head == Head(success_channel) IN
            /\ success_channel' = QueueGet(success_channel)
            /\ UNCHANGED polled_empty
            /\ IF head = None
               THEN /\ router_log' = Append(router_log, "info-term")
                    /\ poll' = [poll EXCEPT ![t] = IdlePoll]
                    /\ UNCHANGED <<incr_calls, msg_log, poll_errors>>
               ELSE IF ~_verify_message_impl(event_msg[head])
               THEN /\ IF event_msg[head].has_msg_id
                       THEN /\ msg_log' = [msg_log EXCEPT ![head] =
                                   Append(@, "warn-ignoring")]
                            /\ incr_calls' = [incr_calls EXCEPT ![head] =
                                   Append(@, <<"router-message-dropped",
                                              "invalid-message-provider", "">>)]
                            /\ UNCHANGED poll_errors
                       ELSE /\ poll_errors' = poll_errors \cup
                                   {<<head, "AttributeError">>}
                            /\ UNCHANGED <<msg_log, incr_calls>>
                    /\ poll' = [poll EXCEPT ![t] = IdlePoll]
                    /\ UNCHANGED router_log
               ELSE /\ incr_calls' = [incr_calls EXCEPT ![head] =
                          Append(@, <<"router-message-consumed", "", "">>)]
                    /\ poll' = [poll EXCEPT ![t] = [IdlePoll EXCEPT
                                    !.pc = "add", !.msg = head]]
                    /\ UNCHANGED <<router_log, msg_log, poll_errors>>
    /\ UNCHANGED <<config_vars, event_msg, messages_in_flight, timers,
                   set_calls, handle_calls, inflight_calls>>

\* _add_message_in_flight up to its first suspension: an id not in the table
\* gets a timer, which is started and stored under the id (start() of the
\* timers of gordon.metrics sets a field and never suspends), then the gauge
\* is reported
AddMessageInFlight(t) ==
    LET m == poll[t].msg
        id == event_msg[m].msg_id
    IN  /\ poll[t].pc = "add"
        /\ inflight_calls' = inflight_calls + 1
        /\ IF id \notin DOMAIN messages_in_flight
           THEN /\ timers' = Append(timers, [msg_id |-> id, starts |-> 1, stops |-> 0])
                /\ messages_in_flight' = Put(messages_in_flight, id, Len(timers) + 1)
           ELSE UNCHANGED <<timers, messages_in_flight>>
        /\ set_calls' = _update_messages_in_flight(messages_in_flight')
        /\ poll' = [poll EXCEPT ![t].pc = "route"]
        /\ UNCHANGED <<config_vars, polled_empty, success_channel, event_msg, incr_calls,
                       msg_log, router_log, handle_calls, poll_errors>>

\* _remove_message_in_flight up to its first await, entered as soon as the
\* outermost _route has returned: a message in a final phase has its timer
\* popped (KeyError when the id is not in the table) and stopped; for any
\* other the gauge is reported and the poll is over
RemoveMessageInFlight(t) ==
    LET m == poll[t].msg
        id == event_msg[m].msg_id
    IN  /\ inflight_calls' = inflight_calls + 1
        /\ IF event_msg'[m].phase \in FINAL_PHASES
           THEN IF id \in DOMAIN messages_in_flight
                THEN /\ messages_in_flight' = Pop(messages_in_flight, id)
                     /\ timers' = [timers EXCEPT ![messages_in_flight[id]].stops = @ + 1]
                     /\ poll' = [poll EXCEPT ![t].pc = "remove_update"]
                     /\ UNCHANGED <<set_calls, poll_errors>>
                ELSE /\ poll_errors' = poll_errors \cup {<<m, "KeyError">>}
                     /\ poll' = [poll EXCEPT ![t] = IdlePoll]
                     /\ UNCHANGED <<messages_in_flight, timers, set_calls>>
           ELSE /\ set_calls' = _update_messages_in_flight(messages_in_flight)
                /\ poll' = [poll EXCEPT ![t] = IdlePoll]
                /\ UNCHANGED <<messages_in_flight, timers, poll_errors>>

\* _remove_message_in_flight after timer.stop(): the gauge is reported and
\* the poll is over
RemoveUpdate(t) ==
    /\ poll[t].pc = "remove_update"
    /\ set_calls' = _update_messages_in_flight(messages_in_flight)
    /\ poll' = [poll EXCEPT ![t] = IdlePoll]
    /\ UNCHANGED <<config_vars, polled_empty, success_channel, event_msg, messages_in_flight,
                   timers, incr_calls, msg_log, router_log, handle_calls,
                   poll_errors, inflight_calls>>

\* _route up to its first await: the next phase is looked up (and logged)
\* and router-update-message-phase is emitted with the message's phase
RouteBegin(t) ==
    LET m == poll[t].msg
        current == event_msg[m].phase
        next_phase == _get_next_phase(current)
    IN  /\ poll[t].pc = "route"
        /\ msg_log' = [msg_log EXCEPT ![m] = Append(@, NextPhaseLog(current))]
        /\ incr_calls' = [incr_calls EXCEPT ![m] =
              Append(@, <<"router-update-message-phase", current, next_phase>>)]
        /\ poll' = [poll EXCEPT ![t].pc = "dispatch",
                                ![t].next_phase = next_phase,
                                ![t].force_cleanup = FALSE]
        /\ UNCHANGED <<config_vars, polled_empty, success_channel, event_msg,
                       messages_in_flight, timers, set_calls, router_log,
                       handle_calls, poll_errors, inflight_calls>>

\* mutant: update_phase leaves the message as it is
update_phase_keeps(msg, new_phase) == msg

\* mutant: update_phase is applied twice
update_phase_twice(msg, new_phase) ==
    [msg EXCEPT !.phase = new_phase,
                !.phase_log = Append(Append(@, new_phase), new_phase)]

\* IEventMessage.update_phase: the message gets the new phase
update_phase(msg, new_phase) ==
    [msg EXCEPT !.phase = new_phase, !.phase_log = Append(@, new_phase)]

\* IEventMessage.append_to_history: an entry and the phase of its author
append_to_history(msg, entry, plugin_phase) ==
    [msg EXCEPT !.history = Append(@, <<entry, plugin_phase>>)]

\* mutant: every exception is metered as a plain Exception
ErrorTagPlain(error) == "Exception"

\* _route's except clause: the error tag of router-message-dropped is
\* e.__class__.__name__
ErrorTag(error) == error

\* _route's except clause up to its await: the exception goes to the history
\* of the message (msg is the message as the try block left it) and to the
\* log, and router-message-dropped is emitted
HandleException(t, msg, error) ==
    LET m == poll[t].msg IN
    /\ event_msg' = [event_msg EXCEPT ![m] =
                        append_to_history(msg, "exception", msg.phase)]
    /\ msg_log' = [msg_log EXCEPT ![m] = Append(@, "warn-exception")]
    /\ incr_calls' = [incr_calls EXCEPT ![m] =
          Append(@, <<"router-message-dropped", ErrorTag(error), "">>)]

\* _route from update_phase to the handler: the message gets the next phase;
\* a final phase without a plugin drops it and _route returns; without a
\* plugin of a phase that is not final, None.handle_message raises inside
\* the try; otherwise the plugin's handle_message is entered
Dispatch(t) ==
    LET m == poll[t].msg
        next_phase == poll[t].next_phase
        next_plugin == Get(phase_plugin_map, next_phase)
    IN  /\ poll[t].pc = "dispatch"
        /\ IF next_phase \in FINAL_PHASES /\ next_plugin = NoPlugin
           THEN /\ event_msg' = [event_msg EXCEPT ![m] = update_phase(@, next_phase)]
                /\ msg_log' = [msg_log EXCEPT ![m] = Append(@, "debug-dropping")]
                /\ RemoveMessageInFlight(t)
                /\ UNCHANGED <<incr_calls, handle_calls>>
           ELSE IF next_plugin = NoPlugin
           THEN /\ HandleException(t, update_phase(event_msg[m], next_phase),
                                    "AttributeError")
                /\ poll' = [poll EXCEPT ![t].pc = "force"]
                /\ UNCHANGED <<handle_calls, messages_in_flight, timers,
                               set_calls, poll_errors, inflight_calls>>
           ELSE /\ event_msg' = [event_msg EXCEPT ![m] = update_phase(@, next_phase)]
                /\ handle_calls' = [handle_calls EXCEPT ![m] =
                      Append(@, [plugin |-> next_plugin, phase |-> next_phase,
                                 forced |-> poll[t].force_cleanup,
                                 result |-> "running", error |-> ""])]
                /\ poll' = [poll EXCEPT ![t].pc = "handling"]
                /\ UNCHANGED <<msg_log, incr_calls, messages_in_flight, timers,
                               set_calls, poll_errors, inflight_calls>>
        /\ UNCHANGED <<config_vars, polled_empty, success_channel, router_log>>

\* the outcome of the running handle_message call is recorded: it returned,
\* or it raised an exception of class error
Finished(calls, result, error) ==
    [calls EXCEPT ![Len(calls)].result = result, ![Len(calls)].error = error]

\* handle_message returns: for a phase that is not final the message goes
\* back on the success channel and _route returns; for a final phase reached
\* without force_cleanup router-message-completed is emitted; after a forced
\* cleanup every nested _route returns
HandlerReturns(t) ==
    LET m == poll[t].msg
        next_phase == poll[t].next_phase
    IN  /\ poll[t].pc = "handling"
        /\ handle_calls' = [handle_calls EXCEPT ![m] = Finished(@, "ok", "")]
        /\ IF ReEnqueues(next_phase)
           THEN /\ event_msg' = [event_msg EXCEPT ![m] =
                                     append_to_history(@, "added", @.phase)]
                /\ success_channel' = Append(success_channel, m)
                /\ RemoveMessageInFlight(t)
                /\ UNCHANGED incr_calls
           ELSE IF EmitsCompleted(next_phase, poll[t].force_cleanup)
           THEN /\ incr_calls' = [incr_calls EXCEPT ![m] =
                      Append(@, <<"router-message-completed", "", "">>)]
                /\ poll' = [poll EXCEPT ![t].pc = "completed"]
                /\ UNCHANGED <<event_msg, success_channel, messages_in_flight,
                               timers, set_calls, poll_errors, inflight_calls>>
           ELSE /\ UNCHANGED <<event_msg, success_channel, incr_calls>>
                /\ RemoveMessageInFlight(t)
        /\ UNCHANGED <<config_vars, polled_empty, msg_log, router_log>>

\* handle_message raises: the except clause of _route runs up to its await
HandlerRaises(t) ==
    LET m == poll[t].msg IN
    /\ poll[t].pc = "handling"
    /\ LET error == HandlerError(handle_calls[m][Len(handle_calls[m])].plugin) IN
          /\ handle_calls' = [handle_calls EXCEPT ![m] = Finished(@, "raised", error)]
          /\ HandleException(t, event_msg[m], error)
    /\ poll' = [poll EXCEPT ![t].pc = "force"]
    /\ UNCHANGED <<config_vars, polled_empty, success_channel, messages_in_flight, timers,
                   set_calls, router_log, poll_errors, inflight_calls>>

\* router-message-completed has been emitted: _route returns
Completed(t) ==
    /\ poll[t].pc = "completed"
    /\ UNCHANGED event_msg
    /\ RemoveMessageInFlight(t)
    /\ UNCHANGED <<config_vars, polled_empty, success_channel, incr_calls, msg_log,
                   router_log, handle_calls>>

\* the except clause calls _route(event_msg, force_cleanup=True), which runs
\* up to its first await; a call the interpreter's stack has no room for is
\* a RecursionError, which no frame catches: it ends the poll task
ForceRoute(t) ==
    LET m == poll[t].msg
        current == event_msg[m].phase
        next_phase == ForcedNextPhase(current)
    IN  /\ poll[t].pc = "force"
        /\ IF poll[t].depth = RecursionLimit
           THEN /\ poll_errors' = poll_errors \cup {<<m, "RecursionError">>}
                /\ poll' = [poll EXCEPT ![t] = IdlePoll]
                /\ UNCHANGED incr_calls
           ELSE /\ incr_calls' = [incr_calls EXCEPT ![m] =
                      Append(@, <<"router-update-message-phase", current, next_phase>>)]
                /\ poll' = [poll EXCEPT ![t].pc = "dispatch",
                                        ![t].next_phase = next_phase,
                                        ![t].force_cleanup = TRUE,
                                        ![t].depth = @ + 1]
                /\ UNCHANGED poll_errors
        /\ UNCHANGED <<config_vars, polled_empty, success_channel, event_msg,
                       messages_in_flight, timers, set_calls, msg_log,
                       router_log, handle_calls, inflight_calls>>

\* ----------------------------------------------------------- specification
PollStep(t) ==
    \/ Schedule(t)
    \/ PollChannel(t)
    \/ AddMessageInFlight(t)
    \/ RouteBegin(t)
    \/ Dispatch(t)
    \/ HandlerReturns(t)
    \/ HandlerRaises(t)
    \/ Completed(t)
    \/ ForceRoute(t)
    \/ RemoveUpdate(t)

Next ==
    \/ \E m \in Msgs : Produce(m)
    \/ PutSentinel
    \/ \E t \in Polls : Schedule(t)
    \/ \E t \in Polls : PollChannel(t)
    \/ \E t \in Polls : AddMessageInFlight(t)
    \/ \E t \in Polls : RouteBegin(t)
    \/ \E t \in Polls : Dispatch(t)
    \/ \E t \in Polls : HandlerReturns(t)
    \/ \E t \in Polls : HandlerRaises(t)
    \/ \E t \in Polls : Completed(t)
    \/ \E t \in Polls : ForceRoute(t)
    \/ \E t \in Polls : RemoveUpdate(t)

Spec == Init /\ [][Next]_vars

\* the event loop runs every pending task, run() never stops adding polls,
\* and every handler invocation returns or raises
Fairness == \A t \in Polls : WF_vars(PollStep(t))

LiveSpec == Init /\ [][Next]_vars /\ Fairness

\* ------------------------------------------------------------------ claims
\* message m has reached its terminal state: its phase is 'cleanup' and it
\* is not on the success channel
Terminal(m) == event_msg[m].phase = "cleanup" /\ ~OnChannel(m)

\* C1: under fair scheduling of the poll tasks, every message put on the
\* success channel eventually has phase 'cleanup' and is never on the
\* success channel again, whichever handlers fail on the way.
C1_EveryMessageReachesCleanup ==
    \A m \in Msgs : <>[](IsMessage(m) => Terminal(m))

C1_Witness ==
    \E m \in Msgs :
        /\ IsMessage(m)
        /\ Terminal(m)
        /\ \A t \in Polls : ~Holds(t, m)
        /\ \E i \in DOMAIN handle_calls[m] : handle_calls[m][i].result = "raised"
        /\ Len(event_msg[m].phase_log) >= 3

\* the _route call made for message m is over: its poll task is past _route
RouteOver(m) == event_msg[m].phase_log # <<>> /\ ~InRoute(m)

\* the outermost _route of message m has returned (no exception left it)
RouteReturned(m) == RouteOver(m) /\ <<m, "RecursionError">> \notin poll_errors

\* the handle_message calls of message m that raised at a phase that is not final
RaisedNonFinal(m) ==
    {i \in DOMAIN handle_calls[m] :
        /\ handle_calls[m][i].result = "raised"
        /\ handle_calls[m][i].phase \notin FINAL_PHASES}

\* C2: failure diversion: when _route returns for a message whose handler
\* raised at a phase that is not final, the message's phase is 'cleanup' and
\* its history holds an entry documenting the exception at that phase.
C2_FailureDiversion ==
    \A m \in Msgs :
        (RaisedNonFinal(m) # {} /\ RouteReturned(m)) =>
            /\ event_msg[m].phase = "cleanup"
            /\ \A i \in RaisedNonFinal(m) :
                  \E j \in DOMAIN event_msg[m].history :
                      event_msg[m].history[j] = <<"exception", handle_calls[m][i].phase>>

C2_Witness ==
    \E m \in Msgs :
        /\ RaisedNonFinal(m) # {}
        /\ RouteReturned(m)
        /\ event_msg[m].phase = "cleanup"
        /\ Len(event_msg[m].history) >= 2

\* C3: no exception that comes of a plugin's handle_message raising leaves
\* _route (and so none ends a poll task of the router loop).
C3_NoExceptionLeavesRoute ==
    \A m \in Msgs : <<m, "RecursionError">> \notin poll_errors

\* C4: the recursion of _route ends by itself: the except clause never makes
\* a nested _route(force_cleanup=True) call the interpreter's stack cannot
\* hold, whatever the handlers do.
C4_RecursionTerminates ==
    \A t \in Polls : poll[t].pc = "force" => poll[t].depth < RecursionLimit

\* the chain phase_route defines from phase ph on, up to the final phase
RECURSIVE ChainFrom(_)
ChainFrom(ph) ==
    IF ph \in FINAL_PHASES \/ ph \notin DOMAIN phase_route
    THEN <<>>
    ELSE <<phase_route[ph]>> \o ChainFrom(phase_route[ph])

IsPrefix(s, r) == Len(s) <= Len(r) /\ \A i \in DOMAIN s : s[i] = r[i]

\* every dispatch of message m so far succeeded: no handler raised and no
\* phase lacked its handler
AllSucceeded(m) ==
    /\ \A i \in DOMAIN handle_calls[m] : handle_calls[m][i].result # "raised"
    /\ IncrCount(m, "router-message-dropped") = 0

\* message m is neither on the channel nor in a poll task
AtRest(m) ==
    /\ IsMessage(m)
    /\ ~OnChannel(m)
    /\ \A t \in Polls : ~Holds(t, m)

\* the phases of the handle_message calls made for message m, in order
HandledPhases(m) == [i \in DOMAIN handle_calls[m] |-> handle_calls[m][i].phase]

HasPlugin(ph) == ph \in DOMAIN phase_plugin_map

\* C5: phase monotonicity under success: for a message that starts at the
\* initial phase of the route and whose dispatches all succeed, the phases
\* the router gives it are the chain of phase_route, each once and in this
\* order, ending at the final phase once the message is at rest, and the
\* handler of each phase is invoked exactly once.
C5_PhaseMonotonicity ==
    \A m \in Msgs :
        (event_msg[m].start_phase \in DOMAIN phase_route /\ AllSucceeded(m)) =>
            LET chain == ChainFrom(event_msg[m].start_phase)
                visited == event_msg[m].phase_log
            IN  /\ IsPrefix(visited, chain)
                /\ \A i, j \in DOMAIN visited : visited[i] = visited[j] => i = j
                /\ HandledPhases(m) = SelectSeq(visited, HasPlugin)
                /\ AtRest(m) => /\ visited = chain
                                /\ event_msg[m].phase \in FINAL_PHASES

C5_Witness ==
    \E m \in Msgs :
        /\ event_msg[m].start_phase = "consume"
        /\ AllSucceeded(m)
        /\ AtRest(m)
        /\ event_msg[m].phase_log = <<"enrich", "publish", "cleanup">>
        /\ HandledPhases(m) = <<"enrich", "publish", "cleanup">>

\* C6: once the sentinel None has been dequeued, nothing more is dequeued
\* from the success channel.
C6_SentinelStopsConsumption ==
    [][TermReceived => Len(success_channel') >= Len(success_channel)]_vars

\* the timers made for msg_id id
TimersOf(id) == {i \in DOMAIN timers : timers[i].msg_id = id}

RECURSIVE Sum(_, _)
Sum(f, S) == IF S = {} THEN 0
             ELSE LET x == CHOOSE y \in S : TRUE IN f[x] + Sum(f, S \ {x})

TimerStarts(id) == Sum([i \in DOMAIN timers |-> timers[i].starts], TimersOf(id))
TimerStops(id) == Sum([i \in DOMAIN timers |-> timers[i].stops], TimersOf(id))

\* C7: in-flight timer accounting: for every msg_id the flight-duration
\* timer is started at most once and stopped at most once, and it has been
\* stopped by the end of the _remove_message_in_flight call of the poll in
\* which a message of that id got a final phase.
C7_TimerAccounting ==
    \A m \in Msgs :
        LET id == event_msg[m].msg_id IN
        IsMessage(m) =>
            /\ TimerStarts(id) <= 1
            /\ TimerStops(id) <= 1
            /\ (RouteReturned(m) /\ event_msg[m].phase \in FINAL_PHASES)
                  => TimerStops(id) = 1

\* the _add/_remove_message_in_flight calls that are at an await before
\* their gauge report
PendingReports ==
    Cardinality({t \in Polls : poll[t].pc = "remove_update"})

\* C8: every call of _add_message_in_flight and _remove_message_in_flight
\* reports the gauge router-messages-in-flight, and the value last reported
\* is the size the table had when it was reported.
C8_GaugeOnEveryCall ==
    /\ [](set_calls.count + PendingReports = inflight_calls)
    /\ [][set_calls'.count # set_calls.count =>
            set_calls'.value = Cardinality(DOMAIN messages_in_flight')]_vars

\* message m got the final phase while a cleanup plugin is registered, and
\* its _route call is over
ArrivedTerminal(m) ==
    /\ RouteOver(m)
    /\ event_msg[m].phase \in FINAL_PHASES
    /\ HasPlugin("cleanup")

\* the cleanup handler calls made for m by a _route without force_cleanup
NaturalArrivals(m) ==
    {i \in DOMAIN handle_calls[m] :
        /\ handle_calls[m][i].phase \in FINAL_PHASES
        /\ ~handle_calls[m][i].forced}

\* C9 as stated: a message that arrived at the final phase by the natural
\* path has router-message-completed emitted once and router-message-dropped
\* never, a message that arrived by the forced path the reverse.
C9_DropOrCompleteByPath ==
    \A m \in Msgs :
        ArrivedTerminal(m) =>
            IF NaturalArrivals(m) # {}
            THEN /\ IncrCount(m, "router-message-completed") = 1
                 /\ IncrCount(m, "router-message-dropped") = 0
            ELSE /\ IncrCount(m, "router-message-completed") = 0
                 /\ IncrCount(m, "router-message-dropped") >= 1

\* C9 (amended): for a message that got the final phase while a cleanup
\* plugin is registered, once its _route is over: router-message-completed
\* was emitted exactly once and router-message-dropped never when the message
\* arrived by the natural path and the cleanup handler returned; otherwise
\* (a handler raised, the cleanup handler on a natural arrival included, or
\* a phase had no plugin) router-message-dropped was emitted, once for each
\* failure, and router-message-completed never.
C9_DropOrCompleteExclusive ==
    \A m \in Msgs :
        ArrivedTerminal(m) =>
            IF \E i \in NaturalArrivals(m) : handle_calls[m][i].result = "ok"
            THEN /\ IncrCount(m, "router-message-completed") = 1
                 /\ IncrCount(m, "router-message-dropped") = 0
            ELSE /\ IncrCount(m, "router-message-completed") = 0
                 /\ IncrCount(m, "router-message-dropped") >= 1
                 /\ IncrCount(m, "router-message-dropped") =
                       Cardinality({j \in DOMAIN event_msg[m].history :
                                       event_msg[m].history[j][1] = "exception"})

C9_Witness ==
    \E m \in Msgs :
        /\ ArrivedTerminal(m)
        /\ \E i \in NaturalArrivals(m) : handle_calls[m][i].result = "raised"
        /\ \E i \in DOMAIN handle_calls[m] :
              handle_calls[m][i].forced /\ handle_calls[m][i].result = "ok"
        /\ IncrCount(m, "router-message-dropped") = 1
        /\ IncrCount(m, "router-message-completed") = 0

\* message m was created with a phase that is no key of phase_route
UnknownPhase(m) ==
    IsMessage(m) /\ event_msg[m].start_phase \notin DOMAIN phase_route

\* message m has been dequeued by a poll
Dequeued(m) == incr_calls[m] # <<>>

\* the poll of message m is past the first await of _route
Looked(m) == Len(incr_calls[m]) >= 2

\* C10: unknown-phase safety: a message whose phase is no key of phase_route
\* is routed to 'cleanup' on its next dispatch with an error logged: the
\* phase looked up for it is 'cleanup', it gets no phase other than
\* 'cleanup', no handler other than the cleanup plugin's is invoked for it,
\* it is not put back on the channel, and when it is dropped for lack of a
\* cleanup plugin that is logged.
C10_UnknownPhaseSafety ==
    \A m \in Msgs :
        UnknownPhase(m) =>
            /\ Looked(m) =>
                  /\ msg_log[m][1] = "error-unknown-phase"
                  /\ incr_calls[m][2] = <<"router-update-message-phase",
                                          event_msg[m].start_phase, "cleanup">>
            /\ \A i \in DOMAIN event_msg[m].phase_log :
                  event_msg[m].phase_log[i] = "cleanup"
            /\ \A i \in DOMAIN handle_calls[m] :
                  /\ handle_calls[m][i].phase = "cleanup"
                  /\ handle_calls[m][i].plugin = phase_plugin_map["cleanup"]
            /\ Dequeued(m) => ~OnChannel(m)
            /\ (RouteOver(m) /\ ~HasPlugin("cleanup")) =>
                  /\ handle_calls[m] = <<>>
                  /\ msg_log[m] = <<"error-unknown-phase", "debug-dropping">>

C10_Witness ==
    \E m \in Msgs :
        /\ UnknownPhase(m)
        /\ AtRest(m)
        /\ event_msg[m].phase = "cleanup"
        /\ Len(handle_calls[m]) = 1
        /\ msg_log[m] = <<"error-unknown-phase">>

\* the object m was put on the channel and does not provide IEventMessage
ForeignObject(m) == event_msg[m].produced /\ ~event_msg[m].provides

\* C11: validity gate: every dequeued object that is not the sentinel and
\* does not provide IEventMessage is dropped with exactly one
\* router-message-dropped counter tagged invalid-message-provider and one
\* log record; no next phase is looked up for it, no router-message-consumed
\* is emitted, no in-flight entry is made and no handler is invoked.
C11_ValidityGate ==
    \A m \in Msgs :
        (ForeignObject(m) /\ ~OnChannel(m)) =>
            /\ incr_calls[m] =
                  << <<"router-message-dropped", "invalid-message-provider", "">> >>
            /\ msg_log[m] = <<"warn-ignoring">>
            /\ event_msg[m].phase_log = <<>>
            /\ handle_calls[m] = <<>>
            /\ \A t \in Polls : ~Holds(t, m)
            /\ DOMAIN messages_in_flight \subseteq UsedIds
            /\ \A e \in poll_errors : e[1] # m

\* C12: the router has no fatal failure path: whatever is dequeued (a
\* message, a duplicate id, an object not providing IEventMessage, the
\* sentinel) and whatever the handlers do, no exception ends a
\* _poll_channel task.
C12_NoFatalFailure == poll_errors = {}

\* the chain consume -> enrich -> publish -> cleanup with a plugin for each
ThreeStageChain ==
    /\ phase_route = RouteWithEnricher
    /\ {"enrich", "publish", "cleanup"} \subseteq DOMAIN phase_plugin_map

\* message m starts at 'consume' on the three stage chain and none of its
\* dispatches has failed
C13Case(m) ==
    /\ IsMessage(m)
    /\ event_msg[m].start_phase = "consume"
    /\ ThreeStageChain
    /\ AllSucceeded(m)

\* between the dispatches of message m: it is on the channel or a poll has
\* dequeued it again, never both
QueuedOrDequeued(m) == OnChannel(m) # (\E t \in Polls : Holds(t, m))

\* the state of message m after k dispatches on the three stage chain, its
\* history having n entries once it is at 'cleanup'
AfterDispatches(m, n) ==
    LET k == Len(event_msg[m].phase_log)
        chain == <<"enrich", "publish", "cleanup">>
    IN  /\ k <= 3
        /\ event_msg[m].phase_log = SubSeq(chain, 1, k)
        /\ k \in {1, 2} => /\ event_msg[m].phase = chain[k]
                           /\ QueuedOrDequeued(m)
                           /\ Len(event_msg[m].history) = k
        /\ k = 3 => /\ event_msg[m].phase = "cleanup"
                    /\ ~OnChannel(m)
                    /\ Len(event_msg[m].history) = n
                    /\ IncrCount(m, "router-message-completed") = 1

RouteCounters(m) ==
    LET calls == incr_calls[m]
        consumed == {i \in DOMAIN calls : calls[i][1] = "router-message-consumed"}
        last == CHOOSE i \in consumed : \A j \in consumed : j <= i
    IN  IF consumed = {} THEN <<>> ELSE SubSeq(calls, last + 1, Len(calls))

\* the handle_message calls of message m that raised
RaisedCalls(m) ==
    {i \in DOMAIN handle_calls[m] : handle_calls[m][i].result = "raised"}

\* the handler _route invoked for message m raised, once, the handler of the
\* forced cleanup (if there is one) returned, and _route has returned
C14Case(m) ==
    /\ IsMessage(m)
    /\ RouteReturned(m)
    /\ Cardinality(RaisedCalls(m)) = 1
    /\ \A i \in RaisedCalls(m) : ~handle_calls[m][i].forced

\* C14: when the handler of phase P raises an exception of class E during
\* _route on a message whose phase was Q, and the cleanup handler succeeds,
\* the counters _route emits are, in this order, router-update-message-phase
\* {current: Q, next: P}, router-message-dropped {error: E},
\* router-update-message-phase {current: P, next: 'cleanup'};
\* router-message-dropped is emitted once and router-message-completed never.
C14_FailureCounters ==
    \A m \in Msgs :
        C14Case(m) =>
            LET i == CHOOSE x \in RaisedCalls(m) : TRUE
                P == handle_calls[m][i].phase
                n == Len(event_msg[m].phase_log)
                Q == IF n = 2 THEN event_msg[m].start_phase
                     ELSE event_msg[m].phase_log[n - 2]
            IN  /\ n >= 2
                /\ RouteCounters(m) =
                      << <<"router-update-message-phase", Q, P>>,
                         <<"router-message-dropped", handle_calls[m][i].error, "">>,
                         <<"router-update-message-phase", P, "cleanup">> >>
                /\ IncrCount(m, "router-message-dropped") = 1
                /\ IncrCount(m, "router-message-completed") = 0

C14_Witness ==
    \E m \in Msgs :
        /\ C14Case(m)
        /\ HasPlugin("cleanup")
        /\ RouteCounters(m) =
              << <<"router-update-message-phase", "consume", "enrich">>,
                 <<"router-message-dropped", "GordonError", "">>,
                 <<"router-update-message-phase", "enrich", "cleanup">> >>
        /\ handle_calls[m][Len(handle_calls[m])] =
              [plugin |-> "event_consumer", phase |-> "cleanup",
               forced |-> TRUE, result |-> "ok", error |-> ""]

\* this step _route drops message m for lack of a plugin of the final phase
DroppedNow(m) ==
    /\ Len(msg_log'[m]) = Len(msg_log[m]) + 1
    /\ msg_log'[m][Len(msg_log'[m])] = "debug-dropping"

\* C15: missing terminal handler: without a plugin for 'cleanup', a message
\* routed to 'cleanup' has its phase set to 'cleanup' and is dropped: no
\* handler is invoked, no exception is raised, neither
\* router-message-completed nor router-message-dropped is emitted for that
\* step, and its in-flight entry is removed.
C15_MissingTerminalHandler ==
    /\ [](\A m \in Msgs : ~HasPlugin("cleanup") =>
            /\ \A i \in DOMAIN handle_calls[m] : handle_calls[m][i].phase # "cleanup"
            /\ IncrCount(m, "router-message-completed") = 0)
    /\ [][\A m \in Msgs : DroppedNow(m) =>
            /\ ~HasPlugin("cleanup")
            /\ event_msg'[m].phase = "cleanup"
            /\ handle_calls' = handle_calls
            /\ incr_calls' = incr_calls
            /\ poll_errors' = poll_errors
            /\ event_msg[m].msg_id \notin DOMAIN messages_in_flight']_vars

\* the handle_message calls made for message m at phases that are not final
NonFinalCalls(m) ==
    {i \in DOMAIN handle_calls[m] : handle_calls[m][i].phase \notin FINAL_PHASES}

\* C16: handler failures are never retried: the handler of each phase that
\* is not final is invoked at most once for a message, and after a handler
\* raised no handler of a phase that is not final is invoked for the message
\* again: every later call is the cleanup plugin's, in a forced cleanup.
C16_NoRetry ==
    \A m \in Msgs :
        /\ \A i, j \in NonFinalCalls(m) :
              handle_calls[m][i].phase = handle_calls[m][j].phase => i = j
        /\ \A i \in RaisedCalls(m) : \A j \in DOMAIN handle_calls[m] :
              j > i => /\ handle_calls[m][j].phase \in FINAL_PHASES
                       /\ handle_calls[m][j].forced

C16_Witness ==
    \E m \in Msgs :
        /\ AtRest(m)
        /\ Len(handle_calls[m]) = 3
        /\ handle_calls[m][1].phase = "enrich" /\ handle_calls[m][1].result = "ok"
        /\ handle_calls[m][2].phase = "publish" /\ handle_calls[m][2].result = "raised"
        /\ handle_calls[m][3].phase = "cleanup" /\ handle_calls[m][3].forced

\* the phase message poll[t].msg had when the _route call poll t is in was
\* entered (the call gives it its next phase at the start of Dispatch)
EntryPhase(t) ==
    LET m == poll[t].msg
        n == Len(event_msg[m].phase_log)
    IN  IF poll[t].pc = "dispatch" THEN event_msg[m].phase
        ELSE IF n >= 2 THEN event_msg[m].phase_log[n - 1]
        ELSE event_msg[m].start_phase

\* poll t is inside a _route(force_cleanup=True) call made on a message that
\* already had the final phase
ForcedOnTerminal(t) ==
    /\ poll[t].pc \in RoutePcs
    /\ poll[t].force_cleanup
    /\ EntryPhase(t) \in FINAL_PHASES

C18_ConsumeToEnricherOrPublisher ==
    \A m \in Msgs :
        (IsMessage(m) /\ event_msg[m].start_phase = "consume"
                      /\ handle_calls[m] # <<>>) =>
            handle_calls[m][1].plugin =
                IF HasPlugin("enrich") THEN Enricher.name ELSE Publisher.name

\* a dispatch of message m failed: its handler raised or its phase had no plugin
FailedPhase(m) == IncrCount(m, "router-message-dropped") >= 1

PolledNow(t) == poll[t].pc = "scheduled" /\ poll'[t].pc # "scheduled"

\* C20: polling an empty success channel is a no-op that never suspends:
\* _poll_channel returns at once, takes nothing from the channel, emits no
\* metric, invokes no handler and leaves the channel, the in-flight table
\* and every message as they were (a channel that is not empty loses its
\* head to the poll).
C20_EmptyPollIsNoOp ==
    [][\A t \in Polls : PolledNow(t) =>
          IF success_channel = <<>>
          THEN /\ poll'[t] = IdlePoll
               /\ polled_empty'
               /\ UNCHANGED <<success_channel, event_msg, messages_in_flight,
                              timers, incr_calls, set_calls, msg_log,
                              router_log, handle_calls, poll_errors,
                              inflight_calls>>
          ELSE success_channel' = Tail(success_channel)]_vars

C20_Witness ==
    /\ polled_empty
    /\ success_channel = <<>>
    /\ messages_in_flight # <<>>
    /\ \E t \in Polls : poll[t].pc = "handling"
    /\ \E t \in Polls : poll[t] = IdlePoll

\* how often message m is on the success channel
OnChannelCount(ch, m) == Cardinality({i \in DOMAIN ch : ch[i] = m})

\* this step the router puts message m on the success channel
PutBackNow(m) ==
    /\ event_msg[m].produced
    /\ OnChannelCount(success_channel', m) > OnChannelCount(success_channel, m)

\* this step the handler of a phase that is not final returns for message m
NonFinalHandlerReturnsNow(m) ==
    /\ \E t \in Polls : /\ Holds(t, m)
                        /\ poll[t].pc = "handling"
                        /\ poll[t].next_phase \notin FINAL_PHASES
    /\ handle_calls'[m] = Finished(handle_calls[m], "ok", "")

\* C21: re-enqueue rule: _route puts the message back on the success
\* channel, once, exactly when the handler of a next phase that is not final
\* returned; a message whose phase is final is never put on the channel by
\* the router, and a message one of whose dispatches failed is never put
\* back.
C21_ReEnqueueRule ==
    /\ [](\A m \in Msgs :
            /\ OnChannelCount(success_channel, m) <= 1
            /\ (event_msg[m].phase \in FINAL_PHASES \/ FailedPhase(m))
                  => ~OnChannel(m))
    /\ [][\A m \in Msgs :
            /\ PutBackNow(m) <=> NonFinalHandlerReturnsNow(m)
            /\ PutBackNow(m) =>
                  /\ success_channel' = Append(success_channel, m)
                  /\ event_msg'[m].phase \notin FINAL_PHASES
                  /\ RaisedCalls(m) = {}]_vars

C21_Witness ==
    \E m \in Msgs :
        /\ OnChannel(m)
        /\ event_msg[m].phase = "publish"
        /\ event_msg[m].history = << <<"added", "enrich">>, <<"added", "publish">> >>
        /\ \E x \in Msgs : x # m /\ FailedPhase(x) /\ AtRest(x)

\* message a has been dequeued for its first dispatch, a plugin is registered
\* for its next phase, and the plugin's handle_message has not started yet
FirstDispatchPending(a) ==
    /\ IsMessage(a)
    /\ event_msg[a].phase_log = <<>>
    /\ handle_calls[a] = <<>>
    /\ HasPlugin(_get_next_phase(event_msg[a].start_phase))
    /\ \E t \in Polls : Holds(t, a) /\ poll[t].pc \in {"add", "route", "dispatch"}

\* C22: FIFO dispatch: when message A is dequeued before message B, A's
\* handler invocation starts before B's under every interleaving of the
\* poll tasks. (Messages are created in the order of their numbers, so the
\* first dequeue of a message precedes that of every message of a higher
\* number.)
C22_FifoDispatchStart ==
    \A a, b \in Msgs :
        (a < b /\ FirstDispatchPending(a)) => handle_calls[b] = <<>>

\* C23: router-message-completed is emitted at most once for a message, and
\* only for a message that went through the whole phase route without a
\* failure: never for a message a failure diverted, nor for one that got to
\* 'cleanup' because its phase was unknown.
C23_CompletedOnlyAfterWholeRoute ==
    \A m \in Msgs :
        /\ IncrCount(m, "router-message-completed") <= 1
        /\ IncrCount(m, "router-message-completed") = 1 =>
              /\ ~FailedPhase(m)
              /\ event_msg[m].start_phase \in DOMAIN phase_route
              /\ event_msg[m].phase_log = ChainFrom(event_msg[m].start_phase)

\* the phase attribute of the plugin of a given name
PluginPhase(name) ==
    LET plugin == CHOOSE p \in {EventConsumer, Enricher, Publisher} : p.name = name
    IN  plugin.phase

\* C26: the phase is mutated before the handler runs: whenever a plugin's
\* handle_message is executing on a message, the message's phase is the
\* phase being attempted, which is the phase attribute of that plugin, and
\* not the phase the message had when _route was entered (but for a forced
\* cleanup of a message already at 'cleanup').
C26_PhaseIsAttemptedPhase ==
    \A t \in Polls :
        poll[t].pc = "handling" =>
            LET m == poll[t].msg
                call == handle_calls[m][Len(handle_calls[m])]
            IN  /\ call.result = "running"
                /\ event_msg[m].phase = poll[t].next_phase
                /\ event_msg[m].phase = call.phase
                /\ event_msg[m].phase = PluginPhase(call.plugin)
                /\ ~ForcedOnTerminal(t) => event_msg[m].phase # EntryPhase(t)

C26_Witness ==
    \E t \in Polls :
        /\ poll[t].pc = "handling"
        /\ event_msg[poll[t].msg].phase = "publish"
        /\ event_msg[poll[t].msg].phase_log = <<"enrich", "publish">>
        /\ handle_calls[poll[t].msg][2].plugin = Publisher.name

\* the router-update-message-phase counters emitted for message m, in order
UpdatePhaseCounters(m) ==
    LET IsUpdate(c) == c[1] = "router-update-message-phase"
    IN  SelectSeq(incr_calls[m], IsUpdate)

\* the _route calls of message m that have emitted their counter and have
\* not called update_phase yet
PendingUpdates(m) ==
    Cardinality({t \in Polls : Holds(t, m) /\ poll[t].pc = "dispatch"})

\* C28: every invocation of _route, forced or not, and also one that drops
\* the message for lack of a plugin of the final phase, emits one
\* router-update-message-phase counter, tagged with the phase the message
\* had before as 'current' and the next phase as 'next', and then calls
\* update_phase once, with that next phase.
C28_OneUpdatePerRoute ==
    \A m \in Msgs :
        LET counters == UpdatePhaseCounters(m)
            visited == event_msg[m].phase_log
            Before(k) == IF k = 1 THEN event_msg[m].start_phase ELSE visited[k - 1]
        IN  /\ Len(counters) = Len(visited) + PendingUpdates(m)
            /\ \A k \in DOMAIN visited :
                  counters[k] = <<"router-update-message-phase", Before(k), visited[k]>>
            /\ \A t \in Polls :
                  (Holds(t, m) /\ poll[t].pc = "dispatch") =>
                      counters[Len(counters)] =
                          <<"router-update-message-phase", event_msg[m].phase,
                            poll[t].next_phase>>

C28_Witness ==
    \E m \in Msgs :
        /\ AtRest(m)
        /\ ~HasPlugin("cleanup")
        /\ event_msg[m].phase_log = <<"enrich", "publish", "cleanup">>
        /\ UpdatePhaseCounters(m) =
              << <<"router-update-message-phase", "consume", "enrich">>,
                 <<"router-update-message-phase", "enrich", "publish">>,
                 <<"router-update-message-phase", "publish", "cleanup">> >>
        /\ \E x \in Msgs : Len(UpdatePhaseCounters(x)) >= 2 /\ FailedPhase(x)

\* the router-message-consumed counters emitted so far: the polls that have
\* dequeued a message
RECURSIVE TotalConsumed(_)
TotalConsumed(S) ==
    IF S = {} THEN 0
    ELSE LET m == CHOOSE x \in S : TRUE
         IN  IncrCount(m, "router-message-consumed") + TotalConsumed(S \ {m})

\* the polls that hold a message, and the _add/_remove_message_in_flight
\* calls they have made so far
Holding == {t \in Polls : poll[t].pc \notin {"unscheduled", "scheduled"}}
CallsOfHolding ==
    Cardinality({t \in Holding : poll[t].pc # "add"})
        + Cardinality({t \in Holding : poll[t].pc = "remove_update"})

\* this step an entry leaves the in-flight table
EntryRemovedNow == DOMAIN messages_in_flight' # DOMAIN messages_in_flight
                      /\ DOMAIN messages_in_flight' \subseteq DOMAIN messages_in_flight

\* C27: for every message dequeued _poll_channel performs, once each and in
\* this order, router-message-consumed, _add_message_in_flight, _route
\* without force_cleanup and _remove_message_in_flight: every poll that is
\* over has made both in-flight calls; the in-flight entry is removed only
\* when the message's phase after routing is final; a dequeued sentinel
\* triggers none of the steps.
C27_PollSteps ==
    /\ [](inflight_calls =
             2 * (TotalConsumed(Msgs) - Cardinality(Holding)) + CallsOfHolding)
    /\ [][EntryRemovedNow =>
             \E t \in Polls :
                 /\ poll[t].msg # NoMsg
                 /\ event_msg'[poll[t].msg].phase \in FINAL_PHASES
                 /\ DOMAIN messages_in_flight' =
                       DOMAIN messages_in_flight \ {event_msg[poll[t].msg].msg_id}]_vars
    /\ [][router_log' # router_log =>
             UNCHANGED <<incr_calls, inflight_calls, messages_in_flight,
                         handle_calls, event_msg>>]_vars

\* message m has been through _add_message_in_flight
Added(m) ==
    \/ IncrCount(m, "router-update-message-phase") >= 1
    \/ \E t \in Polls : Holds(t, m) /\ poll[t].pc = "route"

\* C29: in-flight table invariant: every message that has been dequeued and
\* added and has not yet got a final phase, on the channel between two
\* phases or inside a handler, has its id in the in-flight table, also when
\* several messages share an id.
C29_InFlightUntilTerminal ==
    \A m \in Msgs :
        (IsMessage(m) /\ Added(m) /\ event_msg[m].phase \notin FINAL_PHASES)
            => event_msg[m].msg_id \in DOMAIN messages_in_flight

\* every message of the id has been dequeued at most once, and one that has
\* been dequeued is still held by its poll: the timers of the id were
\* started by polls that are running now
OnlyRunningPolls(id) ==
    \A x \in Msgs :
        (IsMessage(x) /\ event_msg[x].msg_id = id) =>
            /\ IncrCount(x, "router-message-consumed") <= 1
            /\ IncrCount(x, "router-message-consumed") = 1 =>
                  \E t \in Polls : Holds(t, x)

\* C30: the check-then-update of the in-flight table is atomic: no other
\* poll runs between the membership test of an id and the insertion of its
\* timer, so two polls of the same id that run concurrently never both
\* start a timer.
C30_AtomicAddInFlight ==
    \A id \in UsedIds : OnlyRunningPolls(id) => TimerStarts(id) <= 1

\* ------------------------------------------- bootstrap: gathering the plugins
\* plugins main.run hands to _gather_plugins_by_type
MaxPlugins == 2

\* a loaded plugin as _gather_plugins_by_type sees it: does it provide
\* IRunnable and is its run a coroutine function, does it provide
\* IMessageHandler and is its handle_message a coroutine function
LoadedPlugins ==
    [runnable : BOOLEAN, run_ok : BOOLEAN, handler : BOOLEAN, handle_ok : BOOLEAN]

PluginSeqs == UNION {[1..n -> LoadedPlugins] : n \in 0..MaxPlugins}

\* main._log_or_exit_on_exceptions: every exception is logged, as a warning
\* in debug mode and as an error otherwise, and without debug mode
\* SystemExit(1) is raised
_log_or_exit_on_exceptions(st, excs, debug) ==
    [st EXCEPT !.reports = @ \o [i \in 1..Len(excs) |->
                                    [level |-> IF debug THEN "warn" ELSE "error",
                                     exc |-> excs[i]]],
               !.exited = ~debug]

\* mutant: plugins are missing only when there are neither runnables nor handlers
MissingPluginsBoth(runnables, handlers) == runnables = <<>> /\ handlers = <<>>

\* _gather_plugins_by_type: a runnable or a message handler is missing
MissingPlugins(runnables, handlers) == runnables = <<>> \/ handlers = <<>>

\* _gather_plugins_by_type from plugin i on: a plugin that provides IRunnable
\* without a coroutine run is reported and skipped altogether, likewise one
\* that provides IMessageHandler without a coroutine handle_message; after
\* the last plugin missing plugins are reported; SystemExit ends it all
RECURSIVE GatherFrom(_, _)
GatherFrom(st, i) ==
    LET p == st.plugins[i]
        bad_run == p.runnable /\ ~p.run_ok
        bad_handle == p.handler /\ ~p.handle_ok
        invalid == <<"InvalidPluginError">>
        st1 == IF p.runnable /\ p.run_ok
               THEN [st EXCEPT !.runnable_plugins = Append(@, i)]
               ELSE st
        st2 == IF p.handler /\ p.handle_ok
               THEN [st1 EXCEPT !.message_handling_plugins = Append(@, i)]
               ELSE st1
    IN  IF st.exited THEN st
        ELSE IF i > Len(st.plugins)
        THEN IF MissingPlugins(st.runnable_plugins, st.message_handling_plugins)
             THEN _log_or_exit_on_exceptions(st, <<"MissingPluginError">>, st.debug)
             ELSE st
        ELSE IF bad_run
        THEN GatherFrom(_log_or_exit_on_exceptions(st, invalid, st.debug), i + 1)
        ELSE IF bad_handle
        THEN GatherFrom(_log_or_exit_on_exceptions(st1, invalid, st.debug), i + 1)
        ELSE GatherFrom(st2, i + 1)

\* main.run calls _gather_plugins_by_type with the loaded plugins
GatherCalls ==
    { [pc |-> "called", plugins |-> ps, debug |-> d, runnable_plugins |-> <<>>,
       message_handling_plugins |-> <<>>, reports |-> <<>>, exited |-> FALSE] :
          ps \in PluginSeqs, d \in BOOLEAN }

GatherInit ==
    /\ RouterConstructed(RouteWithEnricher, <<EventConsumer, Enricher, Publisher>>)
    /\ gather \in GatherCalls
    /\ loader = Off
    /\ checker = Off
    /\ shut = Off
    /\ relay = Off

_gather_plugins_by_type ==
    /\ gather.pc = "called"
    /\ gather' = [GatherFrom(gather, 1) EXCEPT !.pc = "done"]
    /\ UNCHANGED <<router_vars, loader, checker, shut, relay>>

GatherNext == _gather_plugins_by_type

GatherSpec == GatherInit /\ [][GatherNext]_vars

\* the reports of a given exception made by _gather_plugins_by_type
Reports(exc) == {i \in DOMAIN gather.reports : gather.reports[i].exc = exc}

\* the plugins with an interface whose method is no coroutine function
InvalidPlugins ==
    {i \in DOMAIN gather.plugins :
        \/ gather.plugins[i].runnable /\ ~gather.plugins[i].run_ok
        \/ gather.plugins[i].handler /\ ~gather.plugins[i].handle_ok}

ValidRunnable(p) == p.runnable /\ p.run_ok
ValidHandler(p) == p.handler /\ p.handle_ok
Indices(ps, Test(_)) == SelectSeq([i \in DOMAIN ps |-> i], LAMBDA i : Test(ps[i]))

MaxDepth == 3
MaxActive == 2

Alphabet == {"a", "b"}
Dot == "."
OptionKey == <<"k">>

Range(s) == {s[i] : i \in DOMAIN s}

\* str.startswith
StartsWith(s, prefix) ==
    Len(prefix) <= Len(s) /\ SubSeq(s, 1, Len(prefix)) = prefix

\* str.lstrip(chars): drops leading characters as long as they are in chars
RECURSIVE LStrip(_, _)
LStrip(s, chars) ==
    IF s # <<>> /\ s[1] \in Range(chars) THEN LStrip(Tail(s), chars) ELSE s

\* str.split('.')
RECURSIVE Split(_)
Split(s) ==
    IF Dot \notin Range(s) THEN <<s>>
    ELSE LET i == CHOOSE i \in DOMAIN s :
                     s[i] = Dot /\ \A j \in 1..(i - 1) : s[j] # Dot
         IN  <<SubSeq(s, 1, i - 1)>> \o Split(SubSeq(s, i + 1, Len(s)))

\* '.'.join
RECURSIVE Join(_)
Join(keys) ==
    IF keys = <<>> THEN <<>>
    ELSE IF Len(keys) = 1 THEN keys[1]
    ELSE keys[1] \o <<Dot>> \o Join(Tail(keys))

EmptyDict == <<>>
Option(value) == [kind |-> "option", value |-> value, body |-> EmptyDict]
Table(body) == [kind |-> "table", value |-> <<>>, body |-> body]
NoneValue == [kind |-> "None", value |-> <<>>, body |-> EmptyDict]
AttributeError == [kind |-> "AttributeError", value |-> <<>>, body |-> EmptyDict]

\* dict.get(key): None when the key is missing
DictGet(dict, key) == IF key \in DOMAIN dict THEN dict[key] ELSE NoneValue

\* dict.pop(key) with the KeyError passed over
DictPop(dict, key) == [k \in DOMAIN dict \ {key} |-> dict[k]]

\* dict.update
DictUpdate(dict, other) ==
    [k \in DOMAIN dict \cup DOMAIN other |->
        IF k \in DOMAIN other THEN other[k] ELSE dict[k]]

\* the section of the configuration file for a namespace: an option of its
\* own and a table for every namespace below it
RECURSIVE Section(_, _)
Section(name, depth) ==
    [k \in {OptionKey} \cup (IF depth < MaxDepth THEN {<<c>> : c \in Alphabet} ELSE {}) |->
        IF k = OptionKey THEN Option(name)
        ELSE Table(Section(name \o <<Dot>> \o k, depth + 1))]

\* the loaded configurations: with a section for each top level namespace in
\* the given set
ConfigWith(top) == [k \in {<<c>> : c \in top} |-> Table(Section(k, 1))]
Configs == {ConfigWith(Alphabet), ConfigWith({"a"})}

\* the plugin names: dotted names of up to MaxDepth keys
RECURSIVE NamesOfDepth(_)
NamesOfDepth(d) ==
    IF d = 1 THEN {<<c>> : c \in Alphabet}
    ELSE {n \o <<Dot, c>> : n \in NamesOfDepth(d - 1), c \in Alphabet}
PluginNames == UNION {NamesOfDepth(d) : d \in 1..MaxDepth}
ActivePlugins == {ps \in SUBSET PluginNames : Cardinality(ps) \in 1..MaxActive}

\* _get_plugin_config_keys: the plugins' namespaces and all their parents
\* (the order of the list has no bearing on the dicts built from it)
_get_plugin_config_keys(plugins) ==
    UNION { {Join(SubSeq(Split(p), 1, n)) : n \in 1..Len(Split(p))} : p \in plugins }

\* _get_namespaced_config, drilling down: config = config.get(key) for the
\* keys in turn; .get on what is no table raises AttributeError
RECURSIVE DrillDown(_, _)
DrillDown(config, keys) ==
    IF keys = <<>> THEN config
    ELSE IF config.kind # "table" THEN AttributeError
    ELSE DrillDown(DictGet(config.body, keys[1]), Tail(keys))

\* _get_namespaced_config, the keys to exclude
KeysToExclude(plugin_namespace, all_plugins) ==
    UNION { Range(Split(LStrip(plugin, plugin_namespace))) :
              plugin \in {p \in all_plugins :
                            p # plugin_namespace /\ StartsWith(p, plugin_namespace)} }

\* _get_namespaced_config, the clean up: pops the excluded keys
RECURSIVE PopAll(_, _)
PopAll(dict, keys) ==
    IF keys = {} THEN dict
    ELSE LET key == CHOOSE key \in keys : TRUE
         IN  PopAll(DictPop(dict, key), keys \ {key})

\* _get_namespaced_config: the plugin's config, or the exception raised
_get_namespaced_config(config, plugin_namespace, all_plugins) ==
    LET found == DrillDown(Table(config), Split(plugin_namespace))
    IN  IF found.kind # "table" THEN AttributeError
        ELSE Table(PopAll(found.body, KeysToExclude(plugin_namespace, all_plugins)))

\* _merge_config: from the namespace upwards, what is merged so far
\* overrides the parent's config
RECURSIVE MergeFrom(_, _, _)
MergeFrom(config, keys_to_merge, merged_plugin_config) ==
    IF keys_to_merge = <<>> THEN merged_plugin_config
    ELSE LET ns == Join(keys_to_merge)
             plugin_config == IF ns \in DOMAIN config THEN config[ns].body ELSE EmptyDict
         IN  MergeFrom(config, SubSeq(keys_to_merge, 1, Len(keys_to_merge) - 1),
                       DictUpdate(plugin_config, merged_plugin_config))

_merge_config(config, namespace) == MergeFrom(config, Split(namespace), EmptyDict)

\* load_plugins is called with a configuration and the activated plugins
LoaderCalls ==
    { [pc |-> "keys", active |-> ps, config |-> c, plugin_namespaces |-> {},
       plugin_configs |-> <<>>, merged_configs |-> <<>>, raised |-> "None"] :
          ps \in ActivePlugins, c \in Configs }

LoaderInit ==
    /\ RouterConstructed(RouteWithEnricher, <<EventConsumer, Enricher, Publisher>>)
    /\ gather = Off
    /\ loader \in LoaderCalls
    /\ checker = Off
    /\ shut = Off
    /\ relay = Off

\* load_plugins: plugin_namespaces = _get_plugin_config_keys(active_plugins)
GetPluginConfigKeys ==
    /\ loader.pc = "keys"
    /\ loader' = [loader EXCEPT !.pc = "namespaced",
                     !.plugin_namespaces = _get_plugin_config_keys(loader.active)]
    /\ UNCHANGED <<router_vars, gather, checker, shut, relay>>

\* _load_plugin_configs, first loop: the namespaced config of every namespace
GetNamespacedConfigs ==
    /\ loader.pc = "namespaced"
    /\ LET names == loader.plugin_namespaces
           confs == [n \in names |-> _get_namespaced_config(loader.config, n, names)]
       IN  IF \E n \in names : confs[n] = AttributeError
           THEN loader' = [loader EXCEPT !.pc = "raised", !.raised = "AttributeError"]
           ELSE loader' = [loader EXCEPT !.pc = "merge", !.plugin_configs = confs]
    /\ UNCHANGED <<router_vars, gather, checker, shut, relay>>

\* _load_plugin_configs, second loop: merged with the parents' configs
MergeConfigs ==
    /\ loader.pc = "merge"
    /\ loader' = [loader EXCEPT !.pc = "done",
                     !.merged_configs = [n \in DOMAIN loader.plugin_configs |->
                                            _merge_config(loader.plugin_configs, n)]]
    /\ UNCHANGED <<router_vars, gather, checker, shut, relay>>

LoaderNext == GetPluginConfigKeys \/ GetNamespacedConfigs \/ MergeConfigs

LoaderSpec == LoaderInit /\ [][LoaderNext]_vars

\* the namespace itself and its parents
SelfAndParents(namespace) ==
    {Join(SubSeq(Split(namespace), 1, n)) : n \in 1..Len(Split(namespace))}

\* the section of a namespace in the loaded configuration
SectionOf(namespace) == DrillDown(Table(loader.config), Split(namespace)).body

\* the key is in the config of a plugin with the value of the nearest of the
\* plugin's own and parent sections that has the key
OwnOrInherited(namespace, key) ==
    \E p \in SelfAndParents(namespace) :
        /\ key \in DOMAIN SectionOf(p)
        /\ loader.merged_configs[namespace][key] = SectionOf(p)[key]
        /\ \A q \in SelfAndParents(namespace) :
              key \in DOMAIN SectionOf(q) => Len(q) <= Len(p)

\* the entry is the config table of a plugin namespace other than the given
OthersTable(namespace, entry) ==
    /\ entry.kind = "table"
    /\ \E other \in loader.plugin_namespaces \ {namespace} :
          entry.body = SectionOf(other)

\* C25: plugin configuration isolation: the config computed for a plugin
\* contains only keys of its own namespace and of its parent namespaces,
\* child values overriding parent values, and never a config table that
\* belongs to another plugin.
C25_ConfigIsolation ==
    loader.pc = "done" =>
        \A namespace \in DOMAIN loader.merged_configs :
            \A key \in DOMAIN loader.merged_configs[namespace] :
                /\ OwnOrInherited(namespace, key)
                /\ ~OthersTable(namespace, loader.merged_configs[namespace][key])

\* ---------------------------------------------- two plugins of the same phase
\* a second enricher, given to the constructor before the enricher
EarlierEnricher == [name |-> "earlier_enricher", phase |-> "enrich"]

\* plugin collections in which two plugins declare the phase 'enrich'
DuplicatePhaseLists ==
    { <<EventConsumer, EarlierEnricher, Enricher, Publisher>>,
      <<EarlierEnricher, Enricher, Publisher>>,
      <<EventConsumer, EarlierEnricher, Enricher>> }

DuplicatePhaseInit ==
    /\ \E route \in PhaseRoutes, plugins \in DuplicatePhaseLists :
          RouterConstructed(route, plugins)
    /\ gather = Off
    /\ loader = Off
    /\ checker = Off
    /\ shut = Off
    /\ relay = Off

DuplicatePhaseSpec == DuplicatePhaseInit /\ [][Next]_vars

\* C31: the phase-to-plugin map holds one plugin per phase; when two
\* plugins given to the constructor declare the same phase, the router is
\* constructed without error, the last one of the collection is the one in
\* the map and handles every message dispatched to that phase, and the
\* earlier one is never invoked.
C31_LastPluginOfPhaseWins ==
    /\ DOMAIN phase_plugin_map \subseteq {"enrich", "publish", "cleanup"}
    /\ phase_plugin_map["enrich"] = Enricher.name
    /\ \A ph \in DOMAIN phase_plugin_map : PluginPhase(phase_plugin_map[ph]) = ph
    /\ \A m \in Msgs : \A i \in DOMAIN handle_calls[m] :
          /\ handle_calls[m][i].plugin # EarlierEnricher.name
          /\ handle_calls[m][i].plugin = phase_plugin_map[handle_calls[m][i].phase]
          /\ handle_calls[m][i].phase = "enrich" =>
                handle_calls[m][i].plugin = Enricher.name

C31_Witness ==
    \E m \in Msgs :
        /\ Len(handle_calls[m]) >= 1
        /\ handle_calls[m][1] = [plugin |-> Enricher.name, phase |-> "enrich",
                                 forced |-> FALSE, result |-> "ok", error |-> ""]
        /\ event_msg[m].phase = "enrich"
        /\ OnChannel(m)

\* C32: _remove_message_in_flight never fails: whenever it is called for a
\* message whose phase is final, the id of the message is in the in-flight
\* table, so no poll ends with the KeyError of the pop, also when two
\* messages carry the same id and both get a final phase.
C32_RemoveNeverFails ==
    \A m \in Msgs : <<m, "KeyError">> \notin poll_errors

\* poll t dispatches now to a phase that is not final and has no plugin
NoPluginDispatchNow(t) ==
    /\ poll[t].pc = "dispatch"
    /\ poll'[t] # poll[t]
    /\ poll[t].next_phase \notin FINAL_PHASES
    /\ Get(phase_plugin_map, poll[t].next_phase) = NoPlugin

\* the router-message-dropped counters of message m tagged AttributeError
MissingPluginDrops(m) ==
    {i \in DOMAIN incr_calls[m] :
        incr_calls[m][i] = <<"router-message-dropped", "AttributeError", "">>}

\* C33: a next phase that is not final and has no plugin is a handler
\* failure: the dispatch invokes no handler, emits one
\* router-message-dropped tagged with the kind of the error, ends no poll
\* with an exception and puts nothing on the channel; the route that
\* follows is forced to 'cleanup'; no handler ever runs for a phase without
\* plugin and the message is not on the channel again.
C33_MissingPluginIsFailure ==
    /\ [][\A t \in Polls :
            NoPluginDispatchNow(t) =>
                LET m == poll[t].msg IN
                /\ handle_calls' = handle_calls
                /\ incr_calls'[m] = Append(incr_calls[m],
                      <<"router-message-dropped", "AttributeError", "">>)
                /\ event_msg'[m].phase = poll[t].next_phase
                /\ poll'[t].pc = "force"
                /\ success_channel' = success_channel
                /\ poll_errors' = poll_errors]_vars
    /\ [][\A t \in Polls :
            (poll[t].pc = "force" /\ poll'[t].pc = "dispatch") =>
                /\ poll'[t].next_phase = "cleanup"
                /\ poll'[t].force_cleanup]_vars
    /\ [](\A m \in Msgs :
            /\ \A i \in DOMAIN handle_calls[m] :
                  handle_calls[m][i].phase \in DOMAIN phase_plugin_map
            /\ Cardinality(MissingPluginDrops(m)) <= 1
            /\ MissingPluginDrops(m) # {} => ~OnChannel(m))

C33_Witness ==
    \E m \in Msgs :
        /\ event_msg[m].phase_log = <<"enrich", "cleanup">>
        /\ MissingPluginDrops(m) # {}
        /\ handle_calls[m] = << [plugin |-> EventConsumer.name, phase |-> "cleanup",
                                 forced |-> TRUE, result |-> "ok", error |-> ""] >>
        /\ ~OnChannel(m)
        /\ \A t \in Polls : ~Holds(t, m)

\* the handle_message calls of the cleanup plugin for message m
CleanupCalls(m) ==
    {i \in DOMAIN handle_calls[m] : handle_calls[m][i].phase = "cleanup"}

\* a cleanup plugin is registered and has raised for no call about m
CleanupNeverRaised(m) ==
    /\ "cleanup" \in DOMAIN phase_plugin_map
    /\ \A i \in CleanupCalls(m) : handle_calls[m][i].result # "raised"

\* C34: when a cleanup plugin is registered and does not raise, the cleanup
\* handler is invoked exactly once for a valid message delivered once: no
\* call before the message gets the phase 'cleanup' and one from then on;
\* the call that follows a handler failure at any phase is the cleanup
\* call, and for a message of unknown phase the first call is.
C34_CleanupExactlyOnce ==
    \A m \in Msgs :
        (IsMessage(m) /\ CleanupNeverRaised(m)) =>
            /\ Cardinality(CleanupCalls(m)) =
                  IF "cleanup" \in Range(event_msg[m].phase_log) THEN 1 ELSE 0
            /\ \A i \in DOMAIN handle_calls[m] :
                  (handle_calls[m][i].result = "raised" /\ i < Len(handle_calls[m]))
                      => i + 1 \in CleanupCalls(m)
            /\ (event_msg[m].start_phase \notin DOMAIN phase_route
                   /\ handle_calls[m] # <<>>) => 1 \in CleanupCalls(m)
            /\ (AllSucceeded(m) /\ CleanupCalls(m) # {}
                   /\ event_msg[m].start_phase \in DOMAIN phase_route) =>
                  HandledPhases(m) = ChainFrom(event_msg[m].start_phase)

C34_Witness ==
    \E m \in Msgs :
        /\ IsMessage(m)
        /\ Len(handle_calls[m]) = 2
        /\ handle_calls[m][1].phase = "publish"
        /\ handle_calls[m][1].result = "raised"
        /\ handle_calls[m][2] = [plugin |-> EventConsumer.name, phase |-> "cleanup",
                                 forced |-> TRUE, result |-> "ok", error |-> ""]
        /\ \A t \in Polls : ~Holds(t, m)
        /\ ~OnChannel(m)

\* the handle_message calls for message m that have not finished
OutstandingCalls(m) ==
    {i \in DOMAIN handle_calls[m] : handle_calls[m][i].result = "running"}

\* the poll tasks that hold message m
HoldersOf(m) == {t \in Polls : Holds(t, m)}

\* C35: for a message a runnable has put on the success channel once, under
\* every interleaving of the poll tasks: the message is on the channel at
\* most once at any time, at most one handle_message call for it is
\* outstanding at any time, made by a poll that holds the message.
C35_OneCopyOneHandler ==
    \A m \in Msgs :
        IsMessage(m) =>
            /\ OnChannelCount(success_channel, m) <= 1
            /\ Cardinality(OutstandingCalls(m)) <= 1
            /\ OutstandingCalls(m) # {} =>
                  \E t \in HoldersOf(m) : poll[t].pc = "handling"

\* two polls run handlers at the same time, each for its own message
C35_Witness ==
    /\ poll[1].pc = "handling"
    /\ poll[2].pc = "handling"
    /\ poll[1].msg # poll[2].msg
    /\ \A m \in Msgs : Cardinality(OutstandingCalls(m)) = 1

\* the implementations of an interface that are no coroutine functions
InvalidImplementations ==
    Cardinality({i \in DOMAIN gather.plugins :
                    gather.plugins[i].runnable /\ ~gather.plugins[i].run_ok})
    + Cardinality({i \in DOMAIN gather.plugins :
                    gather.plugins[i].handler /\ ~gather.plugins[i].handle_ok})

\* C36: when _gather_plugins_by_type returns, its message handlers are
\* exactly the plugins that provide IMessageHandler and have a coroutine
\* handle_message, its runnables exactly the plugins that provide IRunnable
\* and have a coroutine run, also for a plugin that provides both
\* interfaces with one method valid only, and each invalid implementation
\* has been reported once.
C36_GatherByInterface ==
    (gather.pc = "done" /\ ~gather.exited) =>
        /\ gather.runnable_plugins = Indices(gather.plugins, ValidRunnable)
        /\ gather.message_handling_plugins = Indices(gather.plugins, ValidHandler)
        /\ Cardinality(Reports("InvalidPluginError")) = InvalidImplementations

\* ------------------------------------------------------------ record checker
\* the longest timeout given to check_record, in sleeps
MaxSleeps == 2
\* the longest answer list and rrdata list
MaxAnswers == 2

\* check_record: sleep_time = 5
sleep_time == 5

\* the timeouts check_record is called with: negative, zero, and at and
\* just above the multiples of sleep_time
Timeouts ==
    {0 - 1} \cup {k * sleep_time + d : k \in 0..MaxSleeps, d \in {0, 1}}

Data == {"d1", "d2"}
RrdataLists == UNION {[1..n -> Data] : n \in 0..MaxAnswers}

\* the DNS record check_record is given
Record(rrdata) ==
    [name |-> "a.example.com.", rrdata |-> rrdata, type |-> "A", ttl |-> 300]

\* the records of a resolver's answer: of the queried or of another type,
\* name and ttl, with one of the data values
AnswerRecords ==
    LET all == [qtype : {"A", "CNAME"}, name : {"a.example.com.", "b.example.com."},
                ttl : {300, 60}, data : Data]
        good(r) == <<r.qtype = "A", r.name = "a.example.com.", r.ttl = 300>>
    IN  {r \in all : Cardinality({i \in 1..3 : ~good(r)[i]}) <= 1}

AnswerLists == UNION {[1..n -> AnswerRecords] : n \in 0..MaxAnswers}

\* RecordChecker._check_resolver_ans: the answers of the type are as many as
\* the rrdata values and each has the record's name and ttl and a data value
\* that is one of the rrdata values
_check_resolver_ans(dns_answer_list, record_name, record_data_list, record_ttl, record_type_code) ==
    LET type_filtered_list ==
            SelectSeq(dns_answer_list, LAMBDA ans : ans.qtype = record_type_code)
    IN  IF Len(type_filtered_list) # Len(record_data_list) THEN FALSE
        ELSE \A i \in DOMAIN type_filtered_list :
                /\ type_filtered_list[i].name = record_name
                /\ type_filtered_list[i].ttl = record_ttl
                /\ type_filtered_list[i].data \in Range(record_data_list)

\* mutant: one more query when the timeout has just been reached
KeepsQueryingAtTimeout(resolvable_record, timeout, retries) ==
    ~resolvable_record /\ timeout >= retries * sleep_time

\* check_record: the condition of the while loop
KeepsQuerying(resolvable_record, timeout, retries) ==
    ~resolvable_record /\ timeout > retries * sleep_time

\* check_record is called with a record and a timeout
CheckerCalls ==
    { [pc |-> "loop", record |-> Record(rrdata), timeout |-> timeout, retries |-> 0,
       resolvable_record |-> FALSE, possible_ans |-> <<>>, replies |-> <<>>,
       log |-> ""] : rrdata \in RrdataLists, timeout \in Timeouts }

CheckerInit ==
    /\ RouterConstructed(RouteWithEnricher, <<EventConsumer, Enricher, Publisher>>)
    /\ gather = Off
    /\ loader = Off
    /\ checker \in CheckerCalls
    /\ shut = Off
    /\ relay = Off

\* check_record, one pass of the loop up to the sleep: the resolver is
\* queried and its answer checked against the record
QueryResolver ==
    /\ checker.pc = "loop"
    /\ KeepsQuerying(checker.resolvable_record, checker.timeout, checker.retries)
    /\ \E possible_ans \in AnswerLists :
          LET record == checker.record
              resolvable_record ==
                  _check_resolver_ans(possible_ans, record.name, record.rrdata,
                                      record.ttl, record.type)
          IN  checker' = [checker EXCEPT
                             !.retries = @ + 1,
                             !.possible_ans = possible_ans,
                             !.resolvable_record = resolvable_record,
                             !.replies = Append(@, resolvable_record),
                             !.pc = IF resolvable_record THEN "loop" ELSE "sleep"]
    /\ UNCHANGED <<router_vars, gather, loader, shut, relay>>

\* check_record: asyncio.sleep(sleep_time) is over
SleepOver ==
    /\ checker.pc = "sleep"
    /\ checker' = [checker EXCEPT !.pc = "loop"]
    /\ UNCHANGED <<router_vars, gather, loader, shut, relay>>

\* check_record after the loop: the outcome is logged
ReportCheck ==
    /\ checker.pc = "loop"
    /\ ~KeepsQuerying(checker.resolvable_record, checker.timeout, checker.retries)
    /\ checker' = [checker EXCEPT
                      !.pc = "done",
                      !.log = IF checker.resolvable_record THEN "took-to-register"
                              ELSE "record-checker-failed"]
    /\ UNCHANGED <<router_vars, gather, loader, shut, relay>>

CheckerNext == QueryResolver \/ SleepOver \/ ReportCheck

CheckerSpec == CheckerInit /\ [][CheckerNext]_vars

\* the resolver answers every query and every sleep ends
CheckerLiveSpec == CheckerSpec /\ WF_vars(CheckerNext)

\* ceil(timeout / sleep_time) for a positive timeout, else no query
MostQueries(timeout) ==
    IF timeout <= 0 THEN 0 ELSE (timeout + sleep_time - 1) \div sleep_time

Matched == {i \in DOMAIN checker.replies : checker.replies[i]}

\* C37: check_record queries the DNS server until a reply matches the
\* record or the timeout is reached: it terminates, after at most
\* ceil(timeout / 5) queries and none when timeout <= 0; it makes no query
\* after the first matching reply; it reports success if and only if some
\* reply matched, otherwise record-checker-failed (after all its queries).
C37_CheckRecordTerminates ==
    /\ [](/\ Len(checker.replies) = checker.retries
          /\ checker.retries <= MostQueries(checker.timeout)
          /\ \A i \in Matched : i = Len(checker.replies)
          /\ checker.pc = "done" =>
                /\ checker.log = "took-to-register" <=> Matched # {}
                /\ checker.log = "record-checker-failed" <=> Matched = {}
                /\ Matched = {} => checker.retries = MostQueries(checker.timeout))
    /\ <>(checker.pc = "done")

C37_Witness ==
    /\ checker.pc = "done"
    /\ checker.timeout = 2 * sleep_time + 1
    /\ checker.replies = <<FALSE, FALSE, TRUE>>
    /\ checker.log = "took-to-register"

\* how often a data value is among the data of a list of answers or values
Occurrences(values, d) == Cardinality({i \in DOMAIN values : values[i] = d})

\* the resolver answer is equal to the record data: the answers of the
\* record's type all carry its name and ttl, and their data are the rrdata
\* values, each as often as it is among the rrdata
EqualToRecord(answers, record) ==
    LET of_type == SelectSeq(answers, LAMBDA ans : ans.qtype = record.type)
        data == [i \in DOMAIN of_type |-> of_type[i].data]
    IN  /\ \A i \in DOMAIN of_type :
              of_type[i].name = record.name /\ of_type[i].ttl = record.ttl
        /\ \A d \in Data : Occurrences(data, d) = Occurrences(record.rrdata, d)

\* C38: _check_resolver_ans returns True if and only if the resolver answer
\* is equal to the record data: the answers of the requested type all carry
\* the record's name and ttl and their data values are exactly the record's
\* rrdata values, each rrdata value being present in the answer.
C38_AnswerEqualsRecord ==
    checker.retries >= 1 =>
        (checker.resolvable_record <=> EqualToRecord(checker.possible_ans, checker.record))

\* ----------------------------------------------------------------- shutdown
\* the tasks of the event loop besides the one that runs shutdown
MaxTasks == 3

\* the task that runs shutdown (asyncio.tasks.Task.current_task())
CurrentTask == 0
Tasks == 0..MaxTasks

\* mutant: every task of the loop is cancelled
TasksToCancelAll(all_tasks, current_task) == all_tasks

\* shutdown: the tasks of the loop that are not the current task
TasksToCancel(all_tasks, current_task) == all_tasks \ {current_task}

\* shutdown is called by its task; every other task of the loop is pending,
\* or done (it has returned or raised)
ShutdownCalls ==
    { [pc |-> "called", state |-> state, tasks |-> {}, must_cancel |-> {},
       results |-> <<>>, loop_stopped |-> FALSE, log |-> <<>>] :
          state \in {s \in [Tasks -> {"pending", "returned", "raised"}] :
                        s[CurrentTask] = "pending"} }

ShutdownInit ==
    /\ RouterConstructed(RouteWithEnricher, <<EventConsumer, Enricher, Publisher>>)
    /\ gather = Off
    /\ loader = Off
    /\ checker = Off
    /\ shut \in ShutdownCalls
    /\ relay = Off

\* shutdown up to its await: the signal is logged, the other tasks are
\* listed and each is cancelled (cancel() of a task that is done does
\* nothing), and asyncio.gather is awaited
CancelTasks ==
    /\ shut.pc = "called"
    /\ LET tasks == TasksToCancel(Tasks, CurrentTask) IN
          shut' = [shut EXCEPT
                      !.pc = "gather",
                      !.tasks = tasks,
                      !.must_cancel = {t \in tasks : shut.state[t] = "pending"},
                      !.log = <<"info-received-exit-signal">> \o
                              [i \in 1..Cardinality(tasks) |-> "debug-cancelling-task"]]
    /\ UNCHANGED <<router_vars, gather, loader, checker, relay>>

\* a pending task other than shutdown's ends while the loop runs: it returns
\* or raises, and one that was cancelled ends cancelled unless it catches
\* the CancelledError
TaskEnds(t) ==
    /\ t # CurrentTask
    /\ shut.pc \in {"called", "gather"}
    /\ shut.state[t] = "pending"
    /\ \E outcome \in {"returned", "raised"} \cup
                      (IF t \in shut.must_cancel THEN {"cancelled"} ELSE {}) :
          shut' = [shut EXCEPT !.state[t] = outcome]
    /\ UNCHANGED <<router_vars, gather, loader, checker, relay>>

\* asyncio.gather(*tasks, return_exceptions=True) is over and shutdown runs
\* to its end: when all the tasks are done, with their results and
\* exceptions as its result, and then the loop is stopped; or, shutdown's
\* own task being cancelled, with CancelledError raised in shutdown
GatherReturns ==
    /\ shut.pc = "gather"
    /\ IF CurrentTask \in shut.must_cancel
       THEN shut' = [shut EXCEPT !.pc = "cancelled",
                                 !.state[CurrentTask] = "cancelled"]
       ELSE /\ \A t \in shut.tasks : shut.state[t] # "pending"
            /\ shut' = [shut EXCEPT
                           !.pc = "done",
                           !.results = [t \in shut.tasks |-> shut.state[t]],
                           !.loop_stopped = TRUE,
                           !.state[CurrentTask] = "returned",
                           !.log = @ \o <<"debug-done-awaiting", "info-shutdown-complete">>]
    /\ UNCHANGED <<router_vars, gather, loader, checker, relay>>

ShutdownNext ==
    \/ CancelTasks
    \/ \E t \in Tasks : TaskEnds(t)
    \/ GatherReturns

ShutdownSpec == ShutdownInit /\ [][ShutdownNext]_vars

OtherTasks == Tasks \ {CurrentTask}

\* C39: graceful shutdown ordering: shutdown cancels every task except the
\* one that runs it, waits until all those tasks have finished (cancelled
\* or failed, their exceptions collected and not raised), and only then
\* stops the event loop; when it has returned every other task is done.
C39_ShutdownOrdering ==
    /\ [](shut.pc # "called" =>
             /\ shut.tasks = OtherTasks
             /\ shut.must_cancel \subseteq OtherTasks
             /\ \A t \in OtherTasks :
                   shut.state[t] = "pending" => t \in shut.must_cancel
             /\ shut.state[CurrentTask] \in {"pending", "returned"})
    /\ [][(~shut.loop_stopped /\ shut'.loop_stopped) =>
             /\ \A t \in OtherTasks : shut.state[t] # "pending"
             /\ shut'.results = [t \in OtherTasks |-> shut.state[t]]]_vars
    /\ [](shut.loop_stopped <=> shut.pc = "done")
    /\ [](shut.pc = "done" =>
             /\ shut.state[CurrentTask] = "returned"
             /\ \A t \in OtherTasks : shut.state[t] # "pending")

C39_Witness ==
    /\ shut.pc = "done"
    /\ shut.loop_stopped
    /\ \E t \in OtherTasks : shut.results[t] = "cancelled"
    /\ \E t \in OtherTasks : shut.results[t] = "raised"
    /\ Len(shut.log) = MaxTasks + 3
    /\ shut.log[Len(shut.log)] = "info-shutdown-complete"

\* ----------------------------------------------------------------- LogRelay
\* the incr and set calls made on a LogRelay
MaxCalls == 3

MetricNames == {"a", "b"}
MetricValues == {0 - 1, 1, 2}
\* the context argument: None, or a dict with an entry
Contexts == {"None", "ctx"}

\* LogRelay._create_metric: context = context or {}
_create_metric(metric_name, value, context) ==
    [metric_name |-> metric_name, value |-> value,
     context |-> IF context = "None" THEN "{}" ELSE context]

\* collections.defaultdict(int): the counter of a name, 0 when it has none
CounterOf(counters, metric_name) ==
    IF metric_name \in DOMAIN counters THEN counters[metric_name] ELSE 0

\* mutant: incr stores the value given
IncrOverwrites(counter, value) == value

\* LogRelay.incr: self.counters[metric_name] += value
IncrAdd(counter, value) == counter + value

\* a LogRelay as its constructor leaves it
RelayInit ==
    /\ RouterConstructed(RouteWithEnricher, <<EventConsumer, Enricher, Publisher>>)
    /\ gather = Off
    /\ loader = Off
    /\ checker = Off
    /\ shut = Off
    /\ relay = [pc |-> "ready", counters |-> <<>>, output |-> <<>>, calls |-> <<>>]

\* LogRelay.set: the metric is made and handed to the logger
RelaySet(metric_name, value, context) ==
    /\ Len(relay.calls) < MaxCalls
    /\ relay' = [relay EXCEPT
                    !.output = Append(@, _create_metric(metric_name, value, context)),
                    !.calls = Append(@, [op |-> "set", metric_name |-> metric_name,
                                         value |-> value, context |-> context])]
    /\ UNCHANGED <<router_vars, gather, loader, checker, shut>>

\* LogRelay.incr: the counter of the name grows by the value and is output
\* by set (which does not suspend)
RelayIncr(metric_name, value, context) ==
    /\ Len(relay.calls) < MaxCalls
    /\ LET counter == IncrAdd(CounterOf(relay.counters, metric_name), value) IN
          relay' = [relay EXCEPT
                       !.counters = Put(@, metric_name, counter),
                       !.output = Append(@, _create_metric(metric_name, counter, context)),
                       !.calls = Append(@, [op |-> "incr", metric_name |-> metric_name,
                                            value |-> value, context |-> context])]
    /\ UNCHANGED <<router_vars, gather, loader, checker, shut>>

RelayNext ==
    \/ \E n \in MetricNames, v \in MetricValues, c \in Contexts : RelayIncr(n, v, c)
    \/ \E n \in MetricNames, v \in MetricValues, c \in Contexts : RelaySet(n, v, c)

RelaySpec == RelayInit /\ [][RelayNext]_vars

\* the sum of the values passed to incr for a name by the first n calls
RECURSIVE IncrSum(_, _, _)
IncrSum(calls, n, metric_name) ==
    IF n = 0 THEN 0
    ELSE IncrSum(calls, n - 1, metric_name)
         + (IF calls[n].op = "incr" /\ calls[n].metric_name = metric_name
            THEN calls[n].value ELSE 0)

\* C40: LogRelay.incr accumulates: the value output for a metric name by
\* an incr call is the sum of all values passed to incr for that name so
\* far, counters starting at 0, whatever the contexts of the calls; set
\* outputs its own value and changes no counter.
C40_IncrAccumulates ==
    /\ Len(relay.output) = Len(relay.calls)
    /\ \A i \in DOMAIN relay.calls :
          /\ relay.output[i].metric_name = relay.calls[i].metric_name
          /\ relay.output[i].value =
                IF relay.calls[i].op = "incr"
                THEN IncrSum(relay.calls, i, relay.calls[i].metric_name)
                ELSE relay.calls[i].value
    /\ \A n \in MetricNames :
          CounterOf(relay.counters, n) = IncrSum(relay.calls, Len(relay.calls), n)

C40_Witness ==
    /\ Len(relay.calls) = 3
    /\ relay.calls[1] = [op |-> "incr", metric_name |-> "a", value |-> 2, context |-> "ctx"]
    /\ relay.calls[2].op = "set"
    /\ relay.calls[2].metric_name = "a"
    /\ relay.calls[3] = [op |-> "incr", metric_name |-> "a", value |-> 1, context |-> "None"]
    /\ relay.output[3] = [metric_name |-> "a", value |-> 3, context |-> "{}"]

====
